---- MODULE Spec2Model ----
(***************************************************************************)
(* KU-Talk backend: the /chat retrieval cascade of backend/api.py and the  *)
(* BM25 lexical index of backend/search.py.                                *)
(*                                                                         *)
(* Text is a sequence of characters.  One element of the sequence is one   *)
(* Python character; a Hangul syllable is written as its romanisation      *)
(* ("hyu", "hak", "nu", "gu", ...), so len(), slicing, `in`, str.count and *)
(* \w+ act on the same units as in the source.                             *)
(***************************************************************************)
EXTENDS Integers, Sequences, FiniteSets, TLC

\* ------------------------------------------------------------------ text

Space == " "
Newline == "\n"

\* str.isspace for the characters of the model
IsSpace(c) == c \in {Space, Newline}

\* characters that \w does not match
NonWordChars == {Space, Newline, ".", "!", "?", "<", ">", "[", "]", ":", "/"}

IsWordChar(c) == c \notin NonWordChars

\* str.lower on one character; Hangul and digits have no case
LowerChar(c) ==
    CASE c = "P" -> "p"
      [] c = "D" -> "d"
      [] c = "F" -> "f"
      [] OTHER -> c

Lower(s) == [i \in 1..Len(s) |-> LowerChar(s[i])]

\* s[:n]
Take(s, n) == IF n >= Len(s) THEN s ELSE IF n <= 0 THEN << >> ELSE SubSeq(s, 1, n)

\* s[n:] with n counted from 0
Drop(s, n) == IF n >= Len(s) THEN << >> ELSE SubSeq(s, n + 1, Len(s))

\* s.startswith(sub) at 1-based position i
MatchAt(s, sub, i) ==
    /\ i + Len(sub) - 1 <= Len(s)
    /\ \A j \in 1..Len(sub) : s[i + j - 1] = sub[j]

\* `sub in s`
Contains(sub, s) == \E i \in 1..(Len(s) + 1) : MatchAt(s, sub, i)

\* the occurrences of sub in s from position i on: one for the first match,
\* and those that follow its end
RECURSIVE CountFrom(_, _, _)
CountFrom(s, sub, i) ==
    IF ~\E j \in i..(Len(s) - Len(sub) + 1) : MatchAt(s, sub, j) THEN 0
    ELSE LET first == CHOOSE j \in i..(Len(s) - Len(sub) + 1) :
                         MatchAt(s, sub, j) /\ \A m \in i..(j - 1) : ~MatchAt(s, sub, m)
         IN 1 + CountFrom(s, sub, first + Len(sub))

\* s.count(sub): non-overlapping occurrences, scanning left to right
Count(s, sub) == IF Len(sub) = 0 THEN Len(s) + 1 ELSE CountFrom(s, sub, 1)

RECURSIVE LStrip(_)
LStrip(s) == IF Len(s) > 0 /\ IsSpace(s[1]) THEN LStrip(Tail(s)) ELSE s

RECURSIVE RStrip(_)
RStrip(s) ==
    IF Len(s) > 0 /\ IsSpace(s[Len(s)]) THEN RStrip(SubSeq(s, 1, Len(s) - 1)) ELSE s

\* str.strip()
Strip(s) == RStrip(LStrip(s))

\* the words of s from position i on, cur being the word in progress: the
\* word runs up to the next character that is no word character
RECURSIVE WordsFrom(_, _, _)
WordsFrom(s, i, cur) ==
    IF ~\E j \in i..Len(s) : ~IsWordChar(s[j])
    THEN (IF Len(cur) + Len(s) >= i THEN <<cur \o SubSeq(s, i, Len(s))>> ELSE << >>)
    ELSE LET stop == CHOOSE j \in i..Len(s) :
                        ~IsWordChar(s[j]) /\ \A m \in i..(j - 1) : IsWordChar(s[m])
         IN (IF Len(cur) + stop > i THEN <<cur \o SubSeq(s, i, stop - 1)>> ELSE << >>)
            \o WordsFrom(s, stop + 1, << >>)

\* re.findall(r"\w+", s)
FindAllWords(s) == WordsFrom(s, 1, << >>)

RECURSIVE JoinWith(_, _)
JoinWith(sep, parts) ==
    IF Len(parts) = 0 THEN << >>
    ELSE IF Len(parts) = 1 THEN parts[1]
    ELSE parts[1] \o sep \o JoinWith(sep, Tail(parts))

\* the text nodes of a markup string: what lies outside <...>; a "<" with no
\* closing ">" is text for html.parser
RECURSIVE TextNodes(_, _, _)
TextNodes(s, i, cur) ==
    IF ~\E p \in i..Len(s) : s[p] = "<" /\ \E j \in (p + 1)..Len(s) : s[j] = ">"
    THEN <<cur \o SubSeq(s, i, Len(s))>>
    ELSE LET open == CHOOSE p \in i..Len(s) :
                        /\ s[p] = "<" /\ \E j \in (p + 1)..Len(s) : s[j] = ">"
                        /\ \A m \in i..(p - 1) : s[m] # "<"
             close == CHOOSE j \in (open + 1)..Len(s) :
                         s[j] = ">" /\ \A m \in (open + 1)..(j - 1) : s[m] # ">"
         IN <<cur \o SubSeq(s, i, open - 1)>> \o TextNodes(s, close + 1, << >>)

\* strip_html: BeautifulSoup(html).get_text(separator=" ", strip=True)
strip_html(html) ==
    IF Len(html) = 0 THEN << >>
    ELSE LET nodes == TextNodes(html, 1, << >>)
             stripped == [i \in 1..Len(nodes) |-> Strip(nodes[i])]
             kept == SelectSeq(stripped, LAMBDA t : Len(t) > 0)
         IN JoinWith(<<Space>>, kept)

\* re.sub('<[^>]+>', ' ', content) of BM25Index.build: every <...> with at
\* least one character inside becomes one space
RECURSIVE SubTags(_, _)
SubTags(s, i) ==
    LET TagOpensAt(p) ==
            /\ s[p] = "<" /\ p + 2 <= Len(s) /\ s[p + 1] # ">"
            /\ \E j \in (p + 2)..Len(s) : s[j] = ">"
    IN
    IF ~\E p \in i..Len(s) : TagOpensAt(p) THEN SubSeq(s, i, Len(s))
    ELSE LET open == CHOOSE p \in i..Len(s) :
                        TagOpensAt(p) /\ \A m \in i..(p - 1) : ~TagOpensAt(m)
             close == CHOOSE j \in (open + 2)..Len(s) :
                         s[j] = ">" /\ \A m \in (open + 1)..(j - 1) : s[m] # ">"
         IN SubSeq(s, i, open - 1) \o <<Space>> \o SubTags(s, close + 1)

\* ------------------------------------------------------------- documents

\* the value of a url that is null or missing (Python None)
None == "None"

\* A text field of a parsed document that is absent, null or "" is the empty
\* sequence: the source reads every one of them as `parsed.get(f) or ""`.

\* truthiness of a url value (None and "" are falsy)
Falsy(u) == u = None \/ u = ""

\* a parsed/<id>.json that cannot be opened, and one that is not valid JSON
Missing == [kind |-> "missing"]
BadJson == [kind |-> "badjson"]

\* a parsed/<id>.json that holds valid JSON which is not an object, such as
\* [] : json.load returns it, and its .get is an AttributeError
NotObject == [kind |-> "notobject"]

Readable(file) == file.kind = "doc"

\* "휴학 신청" / "<b>휴학은</b> 학과."
DocA == [kind |-> "doc", title |-> <<"hyu", "hak", Space, "sin", "cheong">>,
         content |-> <<"<", "b", ">", "hyu", "hak", "eun", "<", "/", "b", ">",
                       Space, "hak", "gwa", ".">>,
         ocr_text |-> << >>, writer |-> << >>, source_url |-> "u1", url |-> None]

\* "장학금 공고" / "장학금 신청." with the text "PDF" recognised in an image
DocB == [kind |-> "doc", title |-> <<"jang", "hak", "geum", Space, "gong", "go">>,
         content |-> <<"jang", "hak", "geum", Space, "sin", "cheong", ".">>,
         ocr_text |-> <<"P", "D", "F">>, writer |-> << >>,
         source_url |-> None, url |-> None]

\* "교수 소개" / "김교수 누구." written by "김교수"
DocW == [kind |-> "doc", title |-> <<"gyo", "su", Space, "so", "gae">>,
         content |-> <<"gim", "gyo", "su", Space, "nu", "gu", ".">>,
         ocr_text |-> << >>, writer |-> <<"gim", "gyo", "su">>,
         source_url |-> None, url |-> "u1"]

\* a notice with a title only: "휴학"
DocE == [kind |-> "doc", title |-> <<"hyu", "hak">>, content |-> << >>, ocr_text |-> << >>,
         writer |-> << >>, source_url |-> None, url |-> None]

\* "링크" / "휴학 http://k 참고."
DocU == [kind |-> "doc", title |-> <<"ring", "keu">>,
         content |-> <<"hyu", "hak", Space, "h", "t", "t", "p", ":", "/", "/", "k",
                       Space, "cham", "go", ".">>,
         ocr_text |-> << >>, writer |-> << >>, source_url |-> None, url |-> None]

\* "긴 공지" / "장학금 휴학 가가...가." : one sentence that is longer than the
\* snippet of a candidate (the constant of lines 165, 181 and 229)
DocLong == [kind |-> "doc", title |-> <<"gin", Space, "gong", "ji">>,
            content |-> <<"jang", "hak", "geum", Space, "hyu", "hak", Space>>
                        \o [i \in 1..400 |-> "ga"] \o <<".">>,
            ocr_text |-> << >>, writer |-> << >>, source_url |-> None, url |-> None]

\* post ids: the keys of index.json and the file names under data/parsed
Pids == {"p1", "p2", "p3"}

\* the order of the keys of index.json (a dict keeps the file's order)
IdxOrder == <<"p1", "p2", "p3">>

\* what data/parsed/<id>.json may hold
FileChoices(pid) ==
    CASE pid = "p1" -> {DocA, BadJson}
      [] pid = "p2" -> {DocB, DocE}
      [] OTHER -> {DocW, DocU, Missing}

\* the url of the id's entry in index.json; NotListed: the id has no entry
NotListed == "NotListed"

UrlChoices(pid) ==
    CASE pid = "p1" -> {"u1"}
      [] pid = "p2" -> {"u1", "u2"}
      [] OTHER -> {"u3", "", NotListed}

\* the questions a client may post
Questions ==
    { << >>,                                              \* ""
      <<Space, Newline>>,                                 \* " \n"
      <<"hyu", "hak">>,                                   \* "휴학"
      <<"jang", "hak", "geum">>,                          \* "장학금"
      <<Space, "sin", "cheong">>,                         \* " 신청"
      <<"gyo", "su", Space, "nu", "gu">>,                 \* "교수 누구"
      <<"deung", "rok">>,                                 \* "등록"
      <<"jang", "hak", "geum", Space, "hyu", "hak">>,     \* "장학금 휴학"
      <<"jang", "hak", "geum", Space, "gim", "gyo", "su", Space,
        "hyu", "hak", "eun">>,                            \* "장학금 김교수 휴학은"
      <<"P", "D", "F">> }                                 \* "PDF"

\* ---------------------------------------------------------------- api.py

\* the names bound at module level in api.py; SYNONYMS is bound only as a
\* local of search (lines 75-80), so chat's read of it at line 153 is a read
\* of an unbound global
ModuleGlobals ==
    {"app", "BASE", "INDEX_PATH", "PARSED_DIR", "load_index", "list_posts",
     "get_post", "search", "ChatRequest", "strip_html",
     "extract_relevant_sentences", "chat"}

NameResolves(name) == name \in ModuleGlobals

\* SYNONYMS of api.py: 불이익, 빌리, 빌릴, 누구 and their variants
SYNONYMS ==
    << [key |-> <<"bul", "i", "ik">>,
        variants |-> << <<"bul", "i", "ik">>, <<"je", "han">>,
                        <<"bul", "i", "ik", "i">>, <<"bul", "i", "ik", "eul">>,
                        <<"bul", "i", "ik", "eun">> >>],
       [key |-> <<"bil", "ri">>,
        variants |-> << <<"bil", "ri">>, <<"bil", "ryeo">>, <<"dae", "yeo">>,
                        <<"dae", "yeo", "ha", "da">>,
                        <<"dae", "yeo", "ga", "neung">> >>],
       [key |-> <<"bil", "ril">>,
        variants |-> << <<"bil", "ril">>, <<"dae", "yeo">> >>],
       [key |-> <<"nu", "gu">>,
        variants |-> << <<"nu", "gu">>, <<"nu", "gu", "ya">>,
                        <<"nu", "gu", "in", "ji">>, <<"nu", "ga">> >>] >>

\* the who-markers of line 185: 누구, 누가, 누구야
WhoMarkers == { <<"nu", "gu">>, <<"nu", "ga">>, <<"nu", "gu", "ya">> }

RECURSIVE SumSeq(_)
SumSeq(ns) == IF Len(ns) = 0 THEN 0 ELSE ns[1] + SumSeq(Tail(ns))

\* candidate scores are kept in thousandths, so that the integer scores of
\* the scans and the float scores of the index share one scale
ScoreUnit == 1000

\* the candidate tuple (score, post_id, title, content[:400], content)
SnippetLen == 400

Candidate(score, pid, title, full) ==
    [score |-> score, id |-> pid, title |-> title,
     snippet |-> Take(full, SnippetLen), full |-> full]

\* lines 142-149: the searchable content of the first scan, OCR text included
ContentWithOcr(doc) ==
    LET content == strip_html(doc.content)
        ocr == doc.ocr_text
    IN IF Len(ocr) > 0 THEN content \o <<Newline>> \o ocr ELSE content

\* lines 151-163: the keyword, synonym and token score of one document
Tier1Score(doc, ql) ==
    LET title == Lower(doc.title)
        content == Lower(ContentWithOcr(doc))
        literal == Count(title, ql) * 3 + Count(content, ql)
        synOf(e) == IF Contains(e.key, ql)
                    THEN SumSeq([i \in 1..Len(e.variants) |->
                                   Count(title, e.variants[i]) * 2
                                   + Count(content, e.variants[i])])
                    ELSE 0
        syn == SumSeq([i \in 1..Len(SYNONYMS) |-> synOf(SYNONYMS[i])])
        toks == FindAllWords(ql)
        tokOf(t) == IF Len(t) > 1
                    THEN (IF Contains(t, title) THEN 2 ELSE 0) + Count(content, t)
                    ELSE 0
        tok == SumSeq([i \in 1..Len(toks) |-> tokOf(toks[i])])
    IN literal + syn + tok

\* ------------------------------------------------------------- search.py

\* the josa of tokenize: 이 가 은 는 을 를 야 아
Particles == {"i", "ga", "eun", "neun", "eul", "reul", "ya", "a"}

\* tokenize: the lowercased words, each followed by its particle-stripped
\* form when it is longer than 2 and ends with a particle
tokenize(text) ==
    LET toks == FindAllWords(Lower(text))
        forms(t) == IF Len(t) > 2 /\ t[Len(t)] \in Particles
                    THEN <<t, SubSeq(t, 1, Len(t) - 1)>>
                    ELSE <<t>>
        F[i \in 0..Len(toks)] == IF i = 0 THEN << >> ELSE F[i - 1] \o forms(toks[i])
    IN F[Len(toks)]

RECURSIVE Gcd(_, _)
Gcd(a, b) == IF b = 0 THEN a ELSE Gcd(b, a % b)

\* the float a / b of two small non-negative integers, kept as the reduced
\* fraction: two such quotients are equal floats exactly when the fractions
\* are equal
Quotient(a, b) == LET g == Gcd(a, b) IN IF a = 0 THEN <<0, 1>> ELSE <<a \div g, b \div g>>

\* the float 0.0
ZeroFloat == <<0, 1>>

\* dict.get(k, default)
Get(dict, k, default) == IF k \in DOMAIN dict THEN dict[k] ELSE default

\* dict[k] = v
Put(dict, k, v) == [x \in (DOMAIN dict) \cup {k} |-> IF x = k THEN v ELSE dict[x]]

\* the empty dict
EmptyDict == [x \in {} |-> 0]

\* BM25Index.__init__; keys is the insertion order of self.tf
NewIndex ==
    [N |-> 0, avgdl |-> ZeroFloat, doc_len |-> EmptyDict, tf |-> EmptyDict,
     df |-> EmptyDict, docs |-> EmptyDict, keys |-> << >>]

\* lines 65-67: the term frequencies of one token list
Freqs(toks) ==
    LET terms == {toks[i] : i \in 1..Len(toks)}
    IN [t \in terms |-> Cardinality({i \in 1..Len(toks) : toks[i] = t})]

\* lines 56-60: the indexed text of one document
IndexedText(doc) ==
    doc.title \o <<Space>> \o SubTags(doc.content, 1) \o <<Space>> \o doc.ocr_text

\* lines 69-70: self.df[t] += 1 for every term of the document
BumpDf(df, terms) ==
    [t \in (DOMAIN df) \cup terms |->
        Get(df, t, 0) + (IF t \in terms THEN 1 ELSE 0)]

\* lines 51-56: the try of build covers open and json.load only, so the
\* parsed.get of line 56 on a value that is not a dict raises out of build
BuildRaises(listing, files) ==
    \E i \in 1..Len(listing) : files[listing[i]] = NotObject

\* lines 48-70: the body of the loop of build for one listed file
BuildOne(st, pid, file) ==
    IF ~Readable(file) THEN st
    ELSE LET toks == tokenize(IndexedText(file))
             freqs == Freqs(toks)
             ix == st.ix
         IN [N |-> st.N + 1,
             total_len |-> st.total_len + Len(toks),
             ix |-> [ix EXCEPT
                       !.docs = Put(ix.docs, pid, file.title),
                       !.doc_len = Put(ix.doc_len, pid, Len(toks)),
                       !.tf = Put(ix.tf, pid, freqs),
                       !.keys = IF pid \in DOMAIN ix.tf THEN ix.keys
                                ELSE Append(ix.keys, pid),
                       !.df = BumpDf(ix.df, DOMAIN freqs)]]

RECURSIVE BuildLoop(_, _, _)
BuildLoop(st, listing, files) ==
    IF Len(listing) = 0 \/ files[listing[1]] = NotObject THEN st
    ELSE BuildLoop(BuildOne(st, listing[1], files[listing[1]]), Tail(listing), files)

\* lines 71-72
BuildEnd(st) ==
    [st.ix EXCEPT
       !.N = st.N,
       !.avgdl = IF st.N # 0 THEN Quotient(st.total_len, st.N) ELSE ZeroFloat]

\* BM25Index.build on the index object ix: listing is os.listdir(PARSED_DIR).
\* The value is the object after the call; a call that raises has left the
\* entries of the files before the failing one and has not reached lines 71-72
build(ix, listing, files) ==
    IF BuildRaises(listing, files)
    THEN BuildLoop([N |-> 0, total_len |-> 0, ix |-> ix], listing, files).ix
    ELSE BuildEnd(BuildLoop([N |-> 0, total_len |-> 0, ix |-> ix], listing, files))

\* k1 = 1.5 and b = 0.75 as fractions
K1Num == 3
K1Den == 2
BNum == 3
BDen == 4

\* floor(1000 * math.log(1 + (N - df + 0.5) / (df + 0.5))) for N = 1..5 (rows)
\* and df = 0..12 (columns)
IdfTable ==
    <<
       <<1386, 287, -224, -560, -811, -1012, -1179, -1322, -1447, -1559, -1659, -1750, -1833>>,
       <<1791, 693, 182, -155, -406, -607, -774, -917, -1042, -1153, -1253, -1344, -1428>>,
       <<2079, 980, 470, 133, -118, -319, -486, -629, -754, -865, -966, -1057, -1140>>,
       <<2302, 1203, 693, 356, 105, -96, -263, -406, -531, -642, -742, -833, -917>>,
       <<2484, 1386, 875, 538, 287, 87, -81, -224, -349, -460, -560, -651, -734>>
    >>

\* line 107 in thousandths
IdfMilli(N, df) == IdfTable[N][df + 1]

\* lines 116-118 for one query token, in thousandths:
\* idf * f * (k1 + 1) / (f + k1 * (1 - b + b * dl / avgdl))
TermScore(ix, freqs, dl, t) ==
    LET f == Get(freqs, t, 0)
        an == ix.avgdl[1]
        ad == ix.avgdl[2]
        num == f * (K1Num + K1Den) * BDen * (IF an = 0 THEN 1 ELSE an)
        den == IF an = 0
               THEN f * K1Den * BDen + K1Num * (BDen - BNum)
               ELSE f * K1Den * BDen * an + K1Num * ((BDen - BNum) * an + BNum * dl * ad)
    IN (IdfMilli(ix.N, Get(ix.df, t, 0)) * num) \div den

\* sorted(items, key=score, reverse=True): a stable sort, so equal scores
\* keep the order of the input
RECURSIVE InsertDesc(_, _)
InsertDesc(sorted, x) ==
    IF Len(sorted) = 0 THEN <<x>>
    ELSE IF sorted[Len(sorted)].score >= x.score THEN Append(sorted, x)
    ELSE Append(InsertDesc(SubSeq(sorted, 1, Len(sorted) - 1), x), sorted[Len(sorted)])

RECURSIVE SortDesc(_)
SortDesc(items) ==
    IF Len(items) = 0 THEN << >>
    ELSE InsertDesc(SortDesc(SubSeq(items, 1, Len(items) - 1)), items[Len(items)])

\* a score that forgets the `if score > 0` of line 119
ScoreTokensKeepsZero(ix, q_toks, top_k) ==
    LET docScore(pid) ==
            SumSeq([i \in 1..Len(q_toks) |->
                      TermScore(ix, ix.tf[pid], Get(ix.doc_len, pid, 0), q_toks[i])])
        all == [i \in 1..Len(ix.keys) |->
                  [id |-> ix.keys[i], score |-> docScore(ix.keys[i])]]
    IN IF Len(q_toks) = 0 \/ ix.N = 0 THEN << >>
       ELSE Take(SortDesc(all), top_k)

\* BM25Index.score: (pid, score) pairs, score in thousandths
ScoreTokens(ix, q_toks, top_k) ==
    LET docScore(pid) ==
            SumSeq([i \in 1..Len(q_toks) |->
                      TermScore(ix, ix.tf[pid], Get(ix.doc_len, pid, 0), q_toks[i])])
        all == [i \in 1..Len(ix.keys) |->
                  [id |-> ix.keys[i], score |-> docScore(ix.keys[i])]]
    IN IF Len(q_toks) = 0 \/ ix.N = 0 THEN << >>
       ELSE Take(SortDesc(SelectSeq(all, LAMBDA e : e.score > 0)), top_k)

score(ix, query, top_k) == ScoreTokens(ix, tokenize(query), top_k)

\* ------------------------------------------------- api.py: the helpers

RECURSIVE Concat(_)
Concat(seqs) == IF Len(seqs) = 0 THEN << >> ELSE seqs[1] \o Concat(Tail(seqs))

\* re.split(r'(?<=[.!?])\s+', text): cut at every run of whitespace that
\* follows a sentence end; the run itself is dropped
SentenceEnds == {".", "!", "?"}

RECURSIVE SplitSentences(_, _, _)
SplitSentences(s, i, cur) ==
    LET CutsAt(p) == IsSpace(s[p]) /\ p > 1 /\ s[p - 1] \in SentenceEnds
    IN
    IF ~\E p \in i..Len(s) : CutsAt(p) THEN <<cur \o SubSeq(s, i, Len(s))>>
    ELSE LET cut == CHOOSE p \in i..Len(s) :
                       CutsAt(p) /\ \A m \in i..(p - 1) : ~CutsAt(m)
             after == CHOOSE j \in (cut + 1)..(Len(s) + 1) :
                         /\ \A m \in cut..(j - 1) : IsSpace(s[m])
                         /\ (j = Len(s) + 1 \/ ~IsSpace(s[j]))
         IN <<cur \o SubSeq(s, i, cut - 1)>> \o SplitSentences(s, after, << >>)

MaxSentences == 3

\* extract_relevant_sentences(text, q, max_sentences)
\* line 113: the lowercased words of q that are longer than 2
LongTokens(words) == SelectSeq([i \in 1..Len(words) |-> Lower(words[i])],
                               LAMBDA t : Len(t) > 2)

\* line 124
SentencesOf(scored) == [i \in 1..Len(scored) |-> scored[i].s]

\* an extractor that keeps the matching sentences in text order, unsorted
PickInTextOrder(sents, q_tokens, max_sentences) ==
    LET hits(sent) == Cardinality({i \in 1..Len(q_tokens) :
                                     Contains(q_tokens[i], Lower(sent))})
        all == [i \in 1..Len(sents) |-> [score |-> hits(sents[i]), s |-> sents[i]]]
    IN IF Len(q_tokens) = 0 THEN << >>
       ELSE SentencesOf(Take(SelectSeq(all, LAMBDA e : e.score > 0), max_sentences))

\* lines 116-124
PickSentences(sents, q_tokens, max_sentences) ==
    LET hits(sent) == Cardinality({i \in 1..Len(q_tokens) :
                                     Contains(q_tokens[i], Lower(sent))})
        all == [i \in 1..Len(sents) |-> [score |-> hits(sents[i]), s |-> sents[i]]]
    IN IF Len(q_tokens) = 0 THEN << >>
       ELSE SentencesOf(Take(SortDesc(SelectSeq(all, LAMBDA e : e.score > 0)),
                             max_sentences))

\* extract_relevant_sentences(text, q, max_sentences)
extract_relevant_sentences(text, q, max_sentences) ==
    PickSentences(SplitSentences(text, 1, << >>), LongTokens(FindAllWords(q)),
                  max_sentences)

\* the end (exclusive) of a match of the pattern r"https?:\\/\\/\\S+" at i,
\* or 0: in the raw string every \\ is an escaped backslash, so the pattern
\* reads http, an optional s, a colon, then \ / \ / \ and one or more S
UrlPatternEnd(s, i) ==
    LET afterScheme ==
            IF MatchAt(s, <<"h", "t", "t", "p", "s">>, i) THEN i + 5
            ELSE IF MatchAt(s, <<"h", "t", "t", "p">>, i) THEN i + 4
            ELSE 0
        tail == <<":", "\\", "/", "\\", "/", "\\", "S">>
    IN IF afterScheme = 0 \/ ~MatchAt(s, tail, afterScheme) THEN 0
       ELSE CHOOSE j \in (afterScheme + Len(tail))..(Len(s) + 1) :
              /\ \A m \in (afterScheme + Len(tail))..(j - 1) : s[m] = "S"
              /\ (j = Len(s) + 1 \/ s[j] # "S")

\* re.sub(r"https?:\\/\\/\\S+", "", text)
RECURSIVE StripUrls(_, _)
StripUrls(s, i) ==
    IF ~\E p \in i..Len(s) : UrlPatternEnd(s, p) # 0 THEN SubSeq(s, i, Len(s))
    ELSE LET first == CHOOSE p \in i..Len(s) :
                         /\ UrlPatternEnd(s, p) # 0
                         /\ \A m \in i..(p - 1) : UrlPatternEnd(s, m) = 0
         IN SubSeq(s, i, first - 1) \o StripUrls(s, UrlPatternEnd(s, first))

\* s.split('\n', 2)[-1]: what follows the second newline, or the last piece
\* when there are fewer than two
RECURSIVE AfterNewlines(_, _)
AfterNewlines(s, n) ==
    IF n = 0 \/ ~\E i \in 1..Len(s) : s[i] = Newline THEN s
    ELSE LET first == CHOOSE i \in 1..Len(s) :
                         s[i] = Newline /\ \A m \in 1..(i - 1) : s[m] # Newline
         IN AfterNewlines(Drop(s, first), n - 1)

\* load_index(): the mapping of index.json, {} when the file cannot be read.
\* The mapping is kept as its keys in file order and the url of each.
load_index(ok, urls) ==
    IF ~ok THEN [keys |-> << >>, url |-> EmptyDict]
    ELSE [keys |-> SelectSeq(IdxOrder, LAMBDA p : urls[p] # NotListed),
          url |-> [p \in {q \in Pids : urls[q] # NotListed} |-> urls[p]]]

\* idx.get(post_id, {}).get("url")
MetaUrl(idx, pid) == Get(idx.url, pid, None)

\* open(os.path.join(PARSED_DIR, f"{name}.json")) and json.load
ReadParsed(files, name) == IF name \in DOMAIN files THEN files[name] ELSE Missing

\* str(x) of a float score, as it is formatted into a file name
FloatStr(milli) == ToString(milli \div ScoreUnit) \o "." \o ToString(milli % ScoreUnit)

\* strip_html(content) + '\n' + ocr_text of lines 228, 246, 298 and 378
FullText(doc) == strip_html(doc.content) \o <<Newline>> \o doc.ocr_text

\* --------------------------------------------------- api.py: the tiers

\* lines 137-167, one document of the first scan: the read, then the score,
\* whose synonym loop reads the global SYNONYMS; every exception skips the
\* document
Tier1One(files, pid, ql) ==
    LET file == ReadParsed(files, pid)
    IN IF ~Readable(file) THEN << >>
       ELSE IF ~NameResolves("SYNONYMS") THEN << >>
       ELSE IF Tier1Score(file, ql) > 0
            THEN <<Candidate(Tier1Score(file, ql) * ScoreUnit, pid, file.title,
                             ContentWithOcr(file))>>
       ELSE << >>

\* lines 135-167
Tier1(idx, files, ql) ==
    Concat([i \in 1..Len(idx.keys) |-> Tier1One(files, idx.keys[i], ql)])

\* lines 172-182, one document of the substring fallback
Tier2One(files, pid, ql) ==
    LET file == ReadParsed(files, pid)
        content == strip_html(file.content)
        toks == SelectSeq(FindAllWords(ql), LAMBDA t : Len(t) > 2)
    IN IF ~Readable(file) THEN << >>
       ELSE IF \E i \in 1..Len(toks) :
                  Contains(toks[i], Lower(content)) \/ Contains(toks[i], Lower(file.title))
            THEN <<Candidate(1 * ScoreUnit, pid, file.title, content)>>
       ELSE << >>

\* lines 170-182: runs only when the first scan kept nothing
Tier2Runs(cands) == Len(cands) = 0

Tier2(cands, idx, files, ql) ==
    IF Tier2Runs(cands)
    THEN Concat([i \in 1..Len(idx.keys) |-> Tier2One(files, idx.keys[i], ql)])
    ELSE cands

\* lines 195-201, one token of the question against one document
Tier3Token(pid, title, content, writer, tok) ==
    (IF Len(tok) > 1 /\ Contains(tok, title)
     THEN <<Candidate(2 * ScoreUnit, pid, title, content)>> ELSE << >>)
    \o (IF Len(tok) > 1 /\ Contains(tok, content)
        THEN <<Candidate(1 * ScoreUnit, pid, title, content)>> ELSE << >>)
    \o (IF Len(writer) > 0 /\ Contains(tok, Lower(writer))
        THEN <<Candidate(3 * ScoreUnit, pid, title, content)>> ELSE << >>)

\* lines 187-203, one document of the who-style scan
Tier3One(files, pid, ql) ==
    LET file == ReadParsed(files, pid)
        title == Lower(file.title)
        content == Lower(strip_html(file.content))
        toks == FindAllWords(ql)
    IN IF ~Readable(file) THEN << >>
       ELSE Concat([i \in 1..Len(toks) |->
                      Tier3Token(pid, title, content, file.writer, toks[i])])

\* line 185
Tier3Runs(ql) == \E m \in WhoMarkers : Contains(m, ql)

\* lines 185-203
Tier3(cands, idx, files, ql) ==
    IF Tier3Runs(ql)
    THEN cands \o Concat([i \in 1..Len(idx.keys) |-> Tier3One(files, idx.keys[i], ql)])
    ELSE cands

\* a sort that forgets the cut of line 206
SortWithoutCut(cands, k) == SortDesc(cands)

\* lines 205-206
SortAndCutOf(cands, k) == Take(SortDesc(cands), k)

\* lines 213-232: one hit of the index, appended unless its id is chosen
\* already or its file cannot be read
RECURSIVE Tier4Loop(_, _, _)
Tier4Loop(chosen, bm, files) ==
    IF Len(bm) = 0 THEN chosen
    ELSE LET pid == bm[1].id
             file == ReadParsed(files, pid)
             next == IF \E i \in 1..Len(chosen) : chosen[i].id = pid THEN chosen
                     ELSE IF ~Readable(file) THEN chosen
                     ELSE Append(chosen,
                                 Candidate(bm[1].score, pid, file.title, FullText(file)))
         IN Tier4Loop(next, Tail(bm), files)

\* line 208
Tier4Runs(chosen, k) == Len(chosen) < k

\* lines 240-250: each (pid, score) pair of the index is unpacked as
\* `score, pid`, so the file that is opened is named after the float
RECURSIVE Tier5Loop(_, _, _)
Tier5Loop(chosen, bm, files) ==
    IF Len(bm) = 0 THEN chosen
    ELSE LET pid == FloatStr(bm[1].score)
             file == ReadParsed(files, pid)
             next == IF ~Readable(file) THEN chosen
                     ELSE Append(chosen,
                                 Candidate(bm[1].score, pid, file.title, FullText(file)))
         IN Tier5Loop(next, Tail(bm), files)

\* line 236
Tier5Runs(chosen) == Len(chosen) = 0

\* lines 260-269: the result source and the answer part of one candidate
ExcerptOf(sent, snippet) ==
    IF Len(sent) > 0 THEN JoinWith(<<Space>>, sent) ELSE snippet

SourceOf(c, idx, q) ==
    [id |-> c.id, title |-> c.title, url |-> MetaUrl(idx, c.id),
     score |-> c.score \div ScoreUnit,
     excerpt |-> ExcerptOf(extract_relevant_sentences(c.full, q, MaxSentences),
                           c.snippet)]

AnswerPartOf(src) == <<"[">> \o src.title \o <<"]", Space>> \o src.excerpt

\* lines 270-281: dedupe by url, dropping falsy urls
RECURSIVE Dedupe(_, _)
Dedupe(sources, seen) ==
    IF Len(sources) = 0 THEN << >>
    ELSE LET u == sources[1].url
         IN IF Falsy(u) \/ u \in seen THEN Dedupe(Tail(sources), seen)
            ELSE <<sources[1]>> \o Dedupe(Tail(sources), seen \cup {u})

\* line 285
DisplayLimit == 2

\* a dedupe that forgets the `if not u: continue` of lines 275-276
RECURSIVE DedupeKeepsFalsy(_, _)
DedupeKeepsFalsy(sources, seen) ==
    IF Len(sources) = 0 THEN << >>
    ELSE IF sources[1].url \in seen THEN DedupeKeepsFalsy(Tail(sources), seen)
    ELSE <<sources[1]>> \o DedupeKeepsFalsy(Tail(sources), seen \cup {sources[1].url})

aggregate_keeps_falsy(sources) == DedupeKeepsFalsy(sources, {})

aggregate(sources) == Dedupe(sources, {})

\* line 306: "\n\n".join(answer_parts)
AnswerText(parts) == JoinWith(<<Newline, Newline>>, parts)

\* the fixed answer of lines 303 and 359: "관련 공지를 찾지 못했습니다."
NotFoundAnswer == <<"gwan", "ryeon", Space, "gong", "ji", "reul", Space,
                    "chat", "ji", Space, "mot", "haet", "seup", "ni", "da", ".">>

NotFoundResponse ==
    [status |-> 200, answer |-> NotFoundAnswer, sources |-> << >>, llm |-> FALSE,
     error |-> None]

\* lines 313-314 and 356-358
RuleResponse(parts, display) ==
    [status |-> 200, answer |-> StripUrls(AnswerText(parts), 1), sources |-> display,
     llm |-> FALSE, error |-> None]

\* line 131
InvalidRequest == [status |-> 400, detail |-> "question is required"]

ContextLen == 1200
AggLen == 400
LastResortLen == 800

\* lines 364-383: the context entry and the source of one retrieved document
CtxOne(rank, hit, files, idx) ==
    LET file == ReadParsed(files, hit.id)
        url == IF ~Falsy(file.source_url) THEN file.source_url
               ELSE IF ~Falsy(file.url) THEN file.url
               ELSE MetaUrl(idx, hit.id)
        excerpt == Take(FullText(file), ContextLen)
    IN IF ~Readable(file) THEN << >>
       ELSE << [ctx |-> <<"[", ToString(rank), "]", Space>> \o file.title
                        \o <<Newline, "U", "R", "L", ":", Space, url, Newline>>
                        \o excerpt \o <<Newline>>,
                src |-> [id |-> hit.id, title |-> file.title, url |-> url]] >>

Contexts(top_docs, files, idx) ==
    Concat([i \in 1..Len(top_docs) |-> CtxOne(i, top_docs[i], files, idx)])

\* lines 398 and 428
Agg(ctxs) ==
    LET first == Take(ctxs, 2)
    IN JoinWith(<<Newline, Newline>>,
                [i \in 1..Len(first) |-> Take(AfterNewlines(first[i].ctx, 2), AggLen)])

SrcList(ctxs) == [i \in 1..Len(ctxs) |-> ctxs[i].src]

\* ------------------------------------------- search.py: the global index

\* data/bm25_index.json: absent, not valid JSON, or the dump of an index
NoFile == [kind |-> "nofile"]
CorruptFile == [kind |-> "corrupt"]

\* json.dump writes a dict as a JSON object, its members in the dict's
\* order: the members as key/value pairs, and the dict that json.load makes
\* of them
JsonObject(dict) == {<<k, dict[k]>> : k \in DOMAIN dict}

FromJson(members) ==
    [k \in {m[1] : m \in members} |-> (CHOOSE m \in members : m[1] = k)[2]]

\* a save that writes no document frequencies
SaveDropsDf(ix) ==
    [kind |-> "json",
     data |-> [N |-> ix.N, avgdl |-> ix.avgdl,
               doc_len |-> JsonObject(ix.doc_len),
               tf |-> [i \in 1..Len(ix.keys) |->
                         <<ix.keys[i], JsonObject(ix.tf[ix.keys[i]])>>],
               df |-> JsonObject(EmptyDict),
               docs |-> JsonObject(ix.docs)]]

\* BM25Index.save: the file then holds the six fields of the index; the
\* members of tf are kept in sequence, since score walks tf in that order
save(ix) ==
    [kind |-> "json",
     data |-> [N |-> ix.N, avgdl |-> ix.avgdl,
               doc_len |-> JsonObject(ix.doc_len),
               tf |-> [i \in 1..Len(ix.keys) |->
                         <<ix.keys[i], JsonObject(ix.tf[ix.keys[i]])>>],
               df |-> JsonObject(ix.df),
               docs |-> JsonObject(ix.docs)]]

\* BM25Index.load on the index object ix, for a file that exists and parses
load(ix, file) ==
    [ix EXCEPT !.N = file.data.N, !.avgdl = file.data.avgdl,
               !.doc_len = FromJson(file.data.doc_len),
               !.tf = [pid \in {file.data.tf[i][1] : i \in 1..Len(file.data.tf)} |->
                         FromJson((CHOOSE m \in {file.data.tf[i] : i \in 1..Len(file.data.tf)} :
                                     m[1] = pid)[2])],
               !.df = FromJson(file.data.df),
               !.docs = FromJson(file.data.docs),
               !.keys = [i \in 1..Len(file.data.tf) |-> file.data.tf[i][1]]]

\* _global_index = None
NoIndex == [kind |-> "none"]

\* os.listdir(PARSED_DIR): the files that exist, in the order the directory
\* yields them
Listing(order, files) == SelectSeq(order, LAMBDA p : files[p] # Missing)

\* get_index(): ok is FALSE when load or build raises, which leaves the
\* global unset and the file as it was
\* lines 133-138: the index just built is saved and installed
BuiltAndSaved(built) == [ok |-> TRUE, g |-> built, bmf |-> save(built)]

get_index(g, bmf, order, files) ==
    IF g # NoIndex THEN [ok |-> TRUE, g |-> g, bmf |-> bmf]
    ELSE IF bmf = CorruptFile THEN [ok |-> FALSE, g |-> g, bmf |-> bmf]
    ELSE IF bmf = NoFile
         THEN IF BuildRaises(Listing(order, files), files)
              THEN [ok |-> FALSE, g |-> g, bmf |-> bmf]
              ELSE BuiltAndSaved(build(NewIndex, Listing(order, files), files))
    ELSE [ok |-> TRUE, g |-> load(NewIndex, bmf), bmf |-> bmf]

\* lines 143-144: score on the index that get_index returned
SearchIn(got, query, k) ==
    [ok |-> got.ok, g |-> got.g, bmf |-> got.bmf,
     hits |-> IF got.ok THEN score(got.g, query, k) ELSE << >>]

\* search(query, top_k) of search.py, as api.py calls it
bm25_search(g, bmf, order, files, query, k) ==
    SearchIn(get_index(g, bmf, order, files), query, k)

\* ------------------------------------------------------------- the state

VARIABLES
    parsed,          \* data/parsed: post id -> the file's content
    idxOk,           \* whether data/index.json can be read
    idxUrls,         \* data/index.json: post id -> url, or NotListed
    dirOrder,        \* the order in which os.listdir yields data/parsed
    bmFile,          \* data/bm25_index.json
    gIndex,          \* search._global_index
    openaiKey,       \* whether OPENAI_API_KEY is set
    question,        \* req.question
    top_k,           \* req.top_k
    pc,              \* the position of chat
    idx,             \* chat's local idx
    candidates,      \* chat's local candidates
    chosen,          \* chat's local chosen
    sources,         \* chat's local sources, after the dedupe
    answer_parts,    \* chat's local answer_parts
    ctxs,            \* chat's locals ctx_parts and src_list, entry by entry
    response,        \* what chat returned or raised
    ran,             \* the tiers whose body ran in this call
    touched,         \* the stores read in this call
    genCalls,        \* the requests posted to the generation endpoint
    ix,              \* a BM25Index object that a script drives directly
    lastOp,          \* the last operation on ix
    builtLog,        \* per build of this run: the corpus read and the index left
    rewrites,        \* how often a parsed file was rewritten in this run
    scored,          \* the last call of ix.score: its arguments and its result
    callers,         \* the threads inside get_index, and whose object is installed
    saved,           \* a save and reload: the object saved and the one loaded back
    picked           \* the last call of extract_relevant_sentences and its result

envVars == <<parsed, idxOk, idxUrls, dirOrder, openaiKey>>
reqVars == <<question, top_k>>
chatVars == <<pc, idx, candidates, chosen, sources, answer_parts, ctxs, response,
              ran, touched, genCalls>>
globalVars == <<bmFile, gIndex>>
objVars == <<ix, lastOp, builtLog, rewrites, scored, callers, saved, picked>>
vars == <<envVars, reqVars, chatVars, globalVars, objVars>>

\* ------------------------------------------------------------- the bounds

MaxTopK == 3

\* builds of one index-driving run, and rewrites of parsed files during it
MaxBuilds == 2
MaxRewrites == 1

\* the largest max_sentences passed to extract_relevant_sentences
MaxPick == 3

\* the directory orders tried
DirOrders == { <<"p1", "p2", "p3">>, <<"p3", "p2", "p1">> }

\* the corpus at the time a persisted index was written
OldFiles == [p \in Pids |-> CASE p = "p1" -> DocA [] p = "p2" -> DocB [] OTHER -> DocW]

NoResponse == [status |-> 0]

\* no call of score yet
NoScore == [kind |-> "none"]

\* no save and reload yet
NoSave == [kind |-> "none"]

\* no call of extract_relevant_sentences yet
NoPick == [kind |-> "none"]

\* the worker threads that serve /chat and call get_index
Threads == {"t1", "t2"}

\* no thread has called get_index and no object is installed
NoCallers ==
    [pc |-> [t \in Threads |-> "call"], local |-> [t \in Threads |-> NoIndex],
     made |-> [t \in Threads |-> FALSE], ret |-> [t \in Threads |-> "none"],
     owner |-> "none"]

\* the queries a script passes to score: "", "신청", "휴학", "장학금 휴학", "등록"
ScoreQueries ==
    { << >>,
      <<"sin", "cheong">>,
      <<"hyu", "hak">>,
      <<"jang", "hak", "geum", Space, "hyu", "hak">>,
      <<"deung", "rok">> }

\* the locals of chat before the call
ChatIdle ==
    /\ pc = "start"
    /\ idx = load_index(FALSE, [p \in Pids |-> NotListed])
    /\ candidates = << >>
    /\ chosen = << >>
    /\ sources = << >>
    /\ answer_parts = << >>
    /\ ctxs = << >>
    /\ response = NoResponse
    /\ ran = {}
    /\ touched = {}
    /\ genCalls = 0

ObjIdle ==
    /\ ix = NewIndex
    /\ lastOp = "new"
    /\ builtLog = << >>
    /\ rewrites = 0
    /\ scored = NoScore
    /\ callers = NoCallers
    /\ saved = NoSave
    /\ picked = NoPick

Init ==
    /\ parsed \in [Pids -> UNION {FileChoices(p) : p \in Pids}]
    /\ \A p \in Pids : parsed[p] \in FileChoices(p)
    /\ idxOk \in BOOLEAN
    /\ idxUrls \in [Pids -> UNION {UrlChoices(p) : p \in Pids}]
    /\ \A p \in Pids : idxUrls[p] \in UrlChoices(p)
    /\ dirOrder \in DirOrders
    /\ bmFile \in {NoFile, CorruptFile, save(build(NewIndex, IdxOrder, OldFiles))}
    /\ gIndex = NoIndex
    /\ openaiKey \in BOOLEAN
    /\ question \in Questions
    /\ top_k \in 1..MaxTopK
    /\ ChatIdle
    /\ ObjIdle

\* ------------------------------------------------------ chat, step by step

\* a validation that tests req.question without the strip() of line 129
ValidateNoStrip ==
    /\ pc = "start"
    /\ IF Len(question) = 0
       THEN /\ response' = InvalidRequest
            /\ pc' = "done"
            /\ UNCHANGED <<idx, touched>>
       ELSE /\ idx' = load_index(idxOk, idxUrls)
            /\ touched' = touched \cup {"index.json"}
            /\ pc' = "tier1"
            /\ UNCHANGED response
    /\ UNCHANGED <<candidates, chosen, sources, answer_parts, ctxs, ran, genCalls>>
    /\ UNCHANGED <<envVars, reqVars, globalVars, objVars>>

\* lines 129-134
Validate ==
    /\ pc = "start"
    /\ IF Len(Strip(question)) = 0
       THEN /\ response' = InvalidRequest
            /\ pc' = "done"
            /\ UNCHANGED <<idx, touched>>
       ELSE /\ idx' = load_index(idxOk, idxUrls)
            /\ touched' = touched \cup {"index.json"}
            /\ pc' = "tier1"
            /\ UNCHANGED response
    /\ UNCHANGED <<candidates, chosen, sources, answer_parts, ctxs, ran, genCalls>>
    /\ UNCHANGED <<envVars, reqVars, globalVars, objVars>>

q == Strip(question)
ql == Lower(Strip(question))

Scanned(i) == IF Len(i.keys) > 0 THEN {"parsed"} ELSE {}

\* lines 135-167
Tier1Step ==
    /\ pc = "tier1"
    /\ candidates' = Tier1(idx, parsed, ql)
    /\ ran' = ran \cup {"tier1"}
    /\ touched' = touched \cup Scanned(idx)
    /\ pc' = "tier2"
    /\ UNCHANGED <<idx, chosen, sources, answer_parts, ctxs, response, genCalls>>
    /\ UNCHANGED <<envVars, reqVars, globalVars, objVars>>

\* lines 169-182
Tier2Step ==
    /\ pc = "tier2"
    /\ candidates' = Tier2(candidates, idx, parsed, ql)
    /\ ran' = IF Tier2Runs(candidates) THEN ran \cup {"tier2"} ELSE ran
    /\ touched' = IF Tier2Runs(candidates) THEN touched \cup Scanned(idx) ELSE touched
    /\ pc' = "tier3"
    /\ UNCHANGED <<idx, chosen, sources, answer_parts, ctxs, response, genCalls>>
    /\ UNCHANGED <<envVars, reqVars, globalVars, objVars>>

\* lines 184-203
Tier3Step ==
    /\ pc = "tier3"
    /\ candidates' = Tier3(candidates, idx, parsed, ql)
    /\ ran' = IF Tier3Runs(ql) THEN ran \cup {"tier3"} ELSE ran
    /\ touched' = IF Tier3Runs(ql) THEN touched \cup Scanned(idx) ELSE touched
    /\ pc' = "cut"
    /\ UNCHANGED <<idx, chosen, sources, answer_parts, ctxs, response, genCalls>>
    /\ UNCHANGED <<envVars, reqVars, globalVars, objVars>>

\* lines 205-206
SortAndCut ==
    /\ pc = "cut"
    /\ candidates' = SortDesc(candidates)
    /\ chosen' = SortAndCutOf(candidates, top_k)
    /\ pc' = "tier4"
    /\ UNCHANGED <<idx, sources, answer_parts, ctxs, response, ran, touched, genCalls>>
    /\ UNCHANGED <<envVars, reqVars, globalVars, objVars>>

\* lines 207-234
Tier4Step ==
    /\ pc = "tier4"
    /\ IF Tier4Runs(chosen, top_k)
       THEN \E bm \in {bm25_search(gIndex, bmFile, dirOrder, parsed, q,
                                     top_k - Len(chosen))} :
               /\ chosen' = Tier4Loop(chosen, bm.hits, parsed)
               /\ gIndex' = bm.g
               /\ bmFile' = bm.bmf
               /\ ran' = ran \cup {"tier4"}
               /\ touched' = touched \cup {"bm25"}
                                \cup (IF Len(bm.hits) > 0 THEN {"parsed"} ELSE {})
       ELSE UNCHANGED <<chosen, gIndex, bmFile, ran, touched>>
    /\ pc' = "tier5"
    /\ UNCHANGED <<idx, candidates, sources, answer_parts, ctxs, response, genCalls>>
    /\ UNCHANGED <<envVars, reqVars, objVars>>

\* lines 235-252
Tier5Step ==
    /\ pc = "tier5"
    /\ IF Tier5Runs(chosen)
       THEN \E bm \in {bm25_search(gIndex, bmFile, dirOrder, parsed, q, top_k)} :
               /\ chosen' = Tier5Loop(chosen, bm.hits, parsed)
               /\ gIndex' = bm.g
               /\ bmFile' = bm.bmf
               /\ ran' = ran \cup {"tier5"}
               /\ touched' = touched \cup {"bm25"}
                                \cup (IF Len(bm.hits) > 0 THEN {"parsed"} ELSE {})
       ELSE UNCHANGED <<chosen, gIndex, bmFile, ran, touched>>
    /\ pc' = "aggregate"
    /\ UNCHANGED <<idx, candidates, sources, answer_parts, ctxs, response, genCalls>>
    /\ UNCHANGED <<envVars, reqVars, objVars>>

\* an aggregation that goes on to the synthesis without the
\* `if not answer_parts` of line 287
AggregateNoEmptyCheck ==
    /\ pc = "aggregate"
    /\ \E all \in {[i \in 1..Len(chosen) |-> SourceOf(chosen[i], idx, q)]} :
          /\ sources' = aggregate(all)
          /\ answer_parts' = [i \in 1..Len(all) |-> AnswerPartOf(all[i])]
    /\ pc' = "synthesize"
    /\ UNCHANGED <<idx, candidates, chosen, ctxs, response, ran, touched, genCalls>>
    /\ UNCHANGED <<envVars, reqVars, globalVars, objVars>>

\* lines 258-285
Aggregate ==
    /\ pc = "aggregate"
    /\ \E all \in {[i \in 1..Len(chosen) |-> SourceOf(chosen[i], idx, q)]} :
          /\ sources' = aggregate(all)
          /\ answer_parts' = [i \in 1..Len(all) |-> AnswerPartOf(all[i])]
    /\ pc' = IF Len(chosen) = 0 THEN "last_resort" ELSE "synthesize"
    /\ UNCHANGED <<idx, candidates, chosen, ctxs, response, ran, touched, genCalls>>
    /\ UNCHANGED <<envVars, reqVars, globalVars, objVars>>

\* lines 287-303: bm[0] is a (pid, score) pair unpacked as `score, pid`
LastResort ==
    /\ pc = "last_resort"
    /\ \E bm \in {bm25_search(gIndex, bmFile, dirOrder, parsed, q, 1)} :
       LET file == ReadParsed(parsed, FloatStr(bm.hits[1].score))
       IN /\ gIndex' = bm.g
          /\ bmFile' = bm.bmf
          /\ touched' = touched \cup {"bm25"}
                           \cup (IF Len(bm.hits) > 0 THEN {"parsed"} ELSE {})
          /\ response' =
                IF Len(bm.hits) > 0 /\ Readable(file)
                THEN [status |-> 200, answer |-> Take(FullText(file), LastResortLen),
                      sources |-> << [id |-> FloatStr(bm.hits[1].score),
                                      title |-> file.title,
                                      url |-> file.source_url] >>,
                      llm |-> FALSE, error |-> None]
                ELSE NotFoundResponse
    /\ ran' = ran \cup {"last_resort"}
    /\ pc' = "done"
    /\ UNCHANGED <<idx, candidates, chosen, sources, answer_parts, ctxs, genCalls>>
    /\ UNCHANGED <<envVars, reqVars, objVars>>

\* lines 305-314: no OPENAI_API_KEY
RuleBased ==
    /\ pc = "synthesize"
    /\ ~openaiKey
    /\ response' = RuleResponse(answer_parts, Take(sources, DisplayLimit))
    /\ pc' = "done"
    /\ UNCHANGED <<idx, candidates, chosen, sources, answer_parts, ctxs, ran, touched,
                   genCalls>>
    /\ UNCHANGED <<envVars, reqVars, globalVars, objVars>>

\* lines 316-383: with a key, the documents of the prompt are retrieved anew
\* from the index
Retrieve ==
    /\ pc = "synthesize"
    /\ openaiKey
    /\ \E bm \in {bm25_search(gIndex, bmFile, dirOrder, parsed, q, top_k)} :
          /\ gIndex' = bm.g
          /\ bmFile' = bm.bmf
          /\ touched' = touched \cup {"bm25", "parsed"}
          /\ IF Len(bm.hits) = 0
             THEN /\ response' =
                       IF Len(Strip(StripUrls(AnswerText(answer_parts), 1))) > 0
                       THEN RuleResponse(answer_parts, Take(sources, DisplayLimit))
                       ELSE NotFoundResponse
                  /\ pc' = "done"
                  /\ UNCHANGED ctxs
             ELSE /\ ctxs' = Contexts(bm.hits, parsed, idx)
                  /\ pc' = "generate"
                  /\ UNCHANGED response
    /\ UNCHANGED <<idx, candidates, chosen, sources, answer_parts, ran, genCalls>>
    /\ UNCHANGED <<envVars, reqVars, objVars>>

\* a url string in a list of sources
UrlEntry(u) == [url |-> u]

\* what the generation endpoint may do: fail (timeout, network error, non-2xx,
\* a body without choices), or reply with a text that json.loads reads as an
\* object, as another JSON value, or not at all
GenFailed == [kind |-> "failed"]

\* "답" / "답." / "답 http://x"
Replies ==
    { [kind |-> "object", answer |-> <<"dap">>, urls |-> <<"u1">>],
      [kind |-> "object", answer |-> <<"dap">>, urls |-> <<"u9", "u9">>],
      [kind |-> "object", answer |-> <<"dap">>, urls |-> << >>],
      [kind |-> "value", text |-> <<"1">>],
      [kind |-> "text", text |-> <<"dap", ".">>] }

GenOutcomes == {GenFailed} \cup Replies

\* lines 411-429
GenerateResponse(outcome, ctx) ==
    LET src_list == SrcList(ctx)
    IN CASE outcome.kind = "failed" ->
              [status |-> 200, answer |-> Agg(ctx), sources |-> Take(src_list, 2),
               llm |-> FALSE, error |-> "failed"]
         [] outcome.kind = "object" ->
              [status |-> 200, answer |-> outcome.answer,
               sources |-> [i \in 1..Len(outcome.urls) |-> UrlEntry(outcome.urls[i])],
               llm |-> TRUE, error |-> None]
         [] outcome.kind = "value" ->
              [status |-> 200, answer |-> outcome.text,
               sources |-> [i \in 1..Len(Take(src_list, 2)) |-> UrlEntry(src_list[i].url)],
               llm |-> TRUE, error |-> None]
         [] OTHER ->
              [status |-> 200, answer |-> StripUrls(outcome.text, 1),
               sources |-> Take(src_list, 2), llm |-> TRUE, error |-> None]

Generate ==
    /\ pc = "generate"
    /\ \E outcome \in GenOutcomes :
          response' = GenerateResponse(outcome, ctxs)
    /\ genCalls' = genCalls + 1
    /\ pc' = "done"
    /\ UNCHANGED <<idx, candidates, chosen, sources, answer_parts, ctxs, ran, touched>>
    /\ UNCHANGED <<envVars, reqVars, globalVars, objVars>>

Next ==
    \/ Validate
    \/ Tier1Step
    \/ Tier2Step
    \/ Tier3Step
    \/ SortAndCut
    \/ Tier4Step
    \/ Tier5Step
    \/ Aggregate
    \/ LastResort
    \/ RuleBased
    \/ Retrieve
    \/ Generate

Spec == Init /\ [][Next]_vars

\* -------------------------------------- a script driving a BM25Index

\* the requests are idle while the index object is driven
InitIndex ==
    /\ parsed \in [Pids -> UNION {FileChoices(p) : p \in Pids} \cup {NotObject}]
    /\ \A p \in Pids :
          parsed[p] \in FileChoices(p) \cup (IF p = "p2" THEN {NotObject} ELSE {})
    /\ idxOk = TRUE
    /\ idxUrls = [p \in Pids |-> "u1"]
    /\ dirOrder \in DirOrders
    /\ bmFile \in {NoFile, save(build(NewIndex, IdxOrder, OldFiles))}
    /\ gIndex = NoIndex
    /\ openaiKey = FALSE
    /\ question = <<"hyu", "hak">>
    /\ top_k = 1
    /\ ChatIdle
    /\ ObjIdle

\* idx = BM25Index()
NewObject ==
    /\ lastOp # "new"
    /\ ix' = NewIndex
    /\ lastOp' = "new"
    /\ UNCHANGED <<builtLog, rewrites, scored, callers, saved, picked>>
    /\ UNCHANGED <<envVars, reqVars, chatVars, globalVars>>

\* idx.build()
BuildObject ==
    /\ Len(builtLog) < MaxBuilds
    /\ \E built \in {build(ix, Listing(dirOrder, parsed), parsed)} :
          /\ ix' = built
          /\ builtLog' = Append(builtLog, [files |-> parsed, ix |-> built,
                                           fresh |-> ix = NewIndex])
    /\ lastOp' = IF BuildRaises(Listing(dirOrder, parsed), parsed)
                 THEN "build_raised" ELSE "build"
    /\ UNCHANGED <<rewrites, scored, callers, saved, picked>>
    /\ UNCHANGED <<envVars, reqVars, chatVars, globalVars>>

\* idx.load(): False when the file is absent
LoadObject ==
    /\ bmFile.kind = "json"
    /\ lastOp # "load"
    /\ ix' = load(ix, bmFile)
    /\ lastOp' = "load"
    /\ UNCHANGED <<builtLog, rewrites, scored, callers, saved, picked>>
    /\ UNCHANGED <<envVars, reqVars, chatVars, globalVars>>

\* idx.save()
SaveObject ==
    /\ lastOp \in {"build", "load"}
    /\ bmFile' = save(ix)
    /\ lastOp' = "save"
    /\ UNCHANGED <<ix, builtLog, rewrites, scored, callers, saved, picked, gIndex>>
    /\ UNCHANGED <<envVars, reqVars, chatVars>>

\* what a writer of data/parsed may leave behind: the crawler saves a new
\* post (crawler.py save_parsed), and it and the OCR scripts rewrite a file
\* in place with open(path, "w"), which is empty or cut short until the dump
\* is complete
MayBecome(old, new) ==
    \/ old = Missing /\ new.kind = "doc"
    \/ old.kind = "doc" /\ new \notin {Missing, NotObject} /\ new # old
    \/ old = BadJson /\ new.kind = "doc"

RewriteParsed ==
    /\ rewrites < MaxRewrites
    /\ \E p \in Pids : \E new \in FileChoices(p) :
          /\ MayBecome(parsed[p], new)
          /\ parsed' = [parsed EXCEPT ![p] = new]
    /\ rewrites' = rewrites + 1
    /\ UNCHANGED <<idxOk, idxUrls, dirOrder, openaiKey>>
    /\ UNCHANGED <<ix, lastOp, builtLog, scored, callers, saved, picked>>
    /\ UNCHANGED <<reqVars, chatVars, globalVars>>

NextIndex ==
    \/ NewObject
    \/ BuildObject
    \/ LoadObject
    \/ SaveObject
    \/ RewriteParsed

SpecIndex == InitIndex /\ [][NextIndex]_vars

\* ------------------------------------ a script that builds and scores

\* idx.score(query, top_k=k): the index is only read, so a run makes one
\* call, at any point. The call returns on every index, a fresh one included
\* (line 101 answers [] for N == 0).
ScoreObject ==
    /\ scored = NoScore
    /\ saved = NoSave
    /\ \E query \in ScoreQueries : \E k \in 0..MaxTopK :
          scored' = [kind |-> "returned", after |-> lastOp, ix |-> ix,
                     query |-> query, top_k |-> k, hits |-> score(ix, query, k)]
    /\ UNCHANGED <<ix, lastOp, builtLog, rewrites, callers, saved, picked>>
    /\ UNCHANGED <<envVars, reqVars, chatVars, globalVars>>

\* idx.save(); other = BM25Index(); other.load(): the script writes the
\* index out and reads the file into a fresh object, once, in a run that
\* does not call score itself
SaveAndReload ==
    /\ saved = NoSave
    /\ scored = NoScore
    /\ bmFile' = save(ix)
    /\ lastOp' = "save"
    /\ saved' = [kind |-> "reloaded", ix |-> ix, back |-> load(NewIndex, save(ix))]
    /\ UNCHANGED <<ix, builtLog, rewrites, scored, callers, picked, gIndex>>
    /\ UNCHANGED <<envVars, reqVars, chatVars>>

NextScore ==
    \/ BuildObject
    \/ LoadObject
    \/ ScoreObject
    \/ SaveAndReload

SpecScore == InitIndex /\ [][NextScore]_vars

\* ------------------------- a request served while data/parsed is written

\* the crawler and the OCR scripts run beside the server
InitLive ==
    /\ parsed \in [Pids -> UNION {FileChoices(p) : p \in Pids}]
    /\ \A p \in Pids : parsed[p] \in FileChoices(p)
    /\ idxOk \in BOOLEAN
    /\ idxUrls = [p \in Pids |-> CASE p = "p1" -> "u1" [] p = "p2" -> "u2" [] OTHER -> "u3"]
    /\ dirOrder = IdxOrder
    /\ bmFile \in {NoFile, save(build(NewIndex, IdxOrder, OldFiles))}
    /\ gIndex = NoIndex
    /\ openaiKey \in BOOLEAN
    /\ question \in {<<"hyu", "hak">>, <<"deung", "rok">>}
    /\ top_k \in 1..MaxTopK
    /\ ChatIdle
    /\ ObjIdle

NextLive ==
    \/ Next
    \/ RewriteParsed

SpecLive == InitLive /\ [][NextLive]_vars

\* ----------------------------- a request over a corpus with a long notice

InitLong ==
    /\ parsed \in [Pids -> UNION {FileChoices(p) : p \in Pids} \cup {DocLong}]
    /\ \A p \in Pids : parsed[p] \in (IF p = "p3" THEN {DocLong} ELSE FileChoices(p))
    /\ idxOk \in BOOLEAN
    /\ idxUrls = [p \in Pids |-> CASE p = "p1" -> "u1" [] p = "p2" -> "u2" [] OTHER -> "u3"]
    /\ dirOrder = IdxOrder
    /\ bmFile \in {NoFile, CorruptFile, save(build(NewIndex, IdxOrder, OldFiles))}
    /\ gIndex = NoIndex
    /\ openaiKey \in BOOLEAN
    /\ question \in Questions
    /\ top_k \in 1..MaxTopK
    /\ ChatIdle
    /\ ObjIdle

SpecLong == InitLong /\ [][Next]_vars

\* ------------------------------- extract_relevant_sentences on its own

\* the texts handed to the extractor
PickTexts ==
    { << >>,
      \* "장학금 신청."
      <<"jang", "hak", "geum", Space, "sin", "cheong", ".">>,
      \* "휴학은 학과. 장학금 휴학은 pdf. 장학금 공고!  등록 안내? 휴학은 장학금."
      <<"hyu", "hak", "eun", Space, "hak", "gwa", ".", Space,
        "jang", "hak", "geum", Space, "hyu", "hak", "eun", Space, "p", "d", "f", ".", Space,
        "jang", "hak", "geum", Space, "gong", "go", "!", Space, Space,
        "deung", "rok", Space, "an", "nae", "?", Newline,
        "hyu", "hak", "eun", Space, "jang", "hak", "geum", ".">>,
      \* "등록 안내. 학과 소개."
      <<"deung", "rok", Space, "an", "nae", ".", Space, "hak", "gwa", Space, "so", "gae", ".">>,
      \* "장학금. 장학금. 휴학은. PDF 장학금."
      <<"jang", "hak", "geum", ".", Space, "jang", "hak", "geum", ".", Space,
        "hyu", "hak", "eun", ".", Space, "P", "D", "F", Space, "jang", "hak", "geum", ".">>,
      \* "장학금.휴학은 " (no whitespace after the first sentence end)
      <<"jang", "hak", "geum", ".", "hyu", "hak", "eun", Space>> }

\* the queries handed to the extractor
PickQueries ==
    { << >>,                                                   \* ""
      <<"hyu", "hak">>,                                        \* "휴학"
      <<"jang", "hak", "geum">>,                               \* "장학금"
      <<"jang", "hak", "geum", Space, "hyu", "hak", "eun">>,   \* "장학금 휴학은"
      <<"P", "D", "F", Space, "jang", "hak", "geum", Space,
        "hyu", "hak", "eun">>,                                 \* "PDF 장학금 휴학은"
      <<"deung", "rok", Space, "sin", "cheong">> }             \* "등록 신청"

\* nothing else runs while the extractor is called
InitExtract ==
    /\ parsed = OldFiles
    /\ idxOk = TRUE
    /\ idxUrls = [p \in Pids |-> "u1"]
    /\ dirOrder = IdxOrder
    /\ bmFile = NoFile
    /\ gIndex = NoIndex
    /\ openaiKey = FALSE
    /\ question = <<"hyu", "hak">>
    /\ top_k = 1
    /\ ChatIdle
    /\ ObjIdle

\* extract_relevant_sentences(text, q, max_sentences)
ExtractCall ==
    /\ picked = NoPick
    /\ \E text \in PickTexts : \E query \in PickQueries : \E m \in 0..MaxPick :
          picked' = [kind |-> "returned", text |-> text, q |-> query,
                     max_sentences |-> m,
                     out |-> extract_relevant_sentences(text, query, m)]
    /\ UNCHANGED <<ix, lastOp, builtLog, rewrites, scored, callers, saved>>
    /\ UNCHANGED <<envVars, reqVars, chatVars, globalVars>>

SpecExtract == InitExtract /\ [][ExtractCall]_vars

\* ------------------------------- get_index called by concurrent threads

\* The endpoints are plain `def`s, which the server runs on worker threads;
\* get_index takes no lock, so its statements interleave.

Moved(t, to) == [callers EXCEPT !.pc[t] = to]

\* line 129: if _global_index is None
GetCheck(t) ==
    /\ callers.pc[t] = "call"
    /\ callers' = Moved(t, IF gIndex = NoIndex THEN "create" ELSE "return")
    /\ UNCHANGED globalVars
    /\ UNCHANGED <<ix, lastOp, builtLog, rewrites, scored, saved, picked>>
    /\ UNCHANGED <<envVars, reqVars, chatVars>>

\* lines 130-131: idx = BM25Index(); loaded = idx.load(). json.load raises on
\* a file that is not complete, and the exception leaves get_index
GetLoad(t) ==
    /\ callers.pc[t] = "create"
    /\ callers' =
          IF bmFile = NoFile THEN [Moved(t, "build") EXCEPT !.made[t] = TRUE]
          ELSE IF bmFile = CorruptFile THEN [Moved(t, "raised") EXCEPT !.made[t] = TRUE]
          ELSE [Moved(t, "install") EXCEPT !.made[t] = TRUE,
                                           !.local[t] = load(NewIndex, bmFile)]
    /\ UNCHANGED globalVars
    /\ UNCHANGED <<ix, lastOp, builtLog, rewrites, scored, saved, picked>>
    /\ UNCHANGED <<envVars, reqVars, chatVars>>

\* line 133: idx.build(); an exception of build leaves get_index
GetBuild(t) ==
    /\ callers.pc[t] = "build"
    /\ callers' =
          IF BuildRaises(Listing(dirOrder, parsed), parsed) THEN Moved(t, "raised")
          ELSE [Moved(t, "save") EXCEPT
                  !.local[t] = build(NewIndex, Listing(dirOrder, parsed), parsed)]
    /\ UNCHANGED globalVars
    /\ UNCHANGED <<ix, lastOp, builtLog, rewrites, scored, saved, picked>>
    /\ UNCHANGED <<envVars, reqVars, chatVars>>

\* line 83: open(INDEX_FILE, 'w') leaves the file empty
GetSaveOpen(t) ==
    /\ callers.pc[t] = "save"
    /\ bmFile' = CorruptFile
    /\ callers' = Moved(t, "dump")
    /\ UNCHANGED gIndex
    /\ UNCHANGED <<ix, lastOp, builtLog, rewrites, scored, saved, picked>>
    /\ UNCHANGED <<envVars, reqVars, chatVars>>

\* line 84: json.dump(data, f), and the file is closed
GetSaveDump(t) ==
    /\ callers.pc[t] = "dump"
    /\ bmFile' = save(callers.local[t])
    /\ callers' = Moved(t, "install")
    /\ UNCHANGED gIndex
    /\ UNCHANGED <<ix, lastOp, builtLog, rewrites, scored, saved, picked>>
    /\ UNCHANGED <<envVars, reqVars, chatVars>>

\* line 138: _global_index = idx
GetInstall(t) ==
    /\ callers.pc[t] = "install"
    /\ gIndex' = callers.local[t]
    /\ callers' = [Moved(t, "return") EXCEPT !.owner = t]
    /\ UNCHANGED bmFile
    /\ UNCHANGED <<ix, lastOp, builtLog, rewrites, scored, saved, picked>>
    /\ UNCHANGED <<envVars, reqVars, chatVars>>

\* line 139: return _global_index
GetReturn(t) ==
    /\ callers.pc[t] = "return"
    /\ callers' = [Moved(t, "done") EXCEPT !.ret[t] = callers.owner]
    /\ UNCHANGED globalVars
    /\ UNCHANGED <<ix, lastOp, builtLog, rewrites, scored, saved, picked>>
    /\ UNCHANGED <<envVars, reqVars, chatVars>>

NextConcurrent ==
    \/ \E t \in Threads : GetCheck(t)
    \/ \E t \in Threads : GetLoad(t)
    \/ \E t \in Threads : GetBuild(t)
    \/ \E t \in Threads : GetSaveOpen(t)
    \/ \E t \in Threads : GetSaveDump(t)
    \/ \E t \in Threads : GetInstall(t)
    \/ \E t \in Threads : GetReturn(t)

SpecConcurrent == InitIndex /\ [][NextConcurrent]_vars

\* -------------------------------------------------------------- claims

\* chat has loaded idx and is past the tiers
PastTiers == pc \in {"aggregate", "synthesize", "last_resort", "generate", "done"}
                /\ response # InvalidRequest

\* the documents the keyword and synonym scoring of lines 151-165 keeps: the
\* readable ones whose score is positive, each with that score
Tier1Kept ==
    LET one(pid) == IF Readable(ReadParsed(parsed, pid))
                       /\ Tier1Score(ReadParsed(parsed, pid), ql) > 0
                    THEN <<Candidate(Tier1Score(ReadParsed(parsed, pid), ql) * ScoreUnit,
                                     pid, ReadParsed(parsed, pid).title,
                                     ContentWithOcr(ReadParsed(parsed, pid)))>>
                    ELSE << >>
    IN Concat([i \in 1..Len(idx.keys) |-> one(idx.keys[i])])

LaterTiers == {"tier2", "tier3", "tier4", "tier5", "last_resort"}

\* C1: when the keyword and synonym scoring yields at least top_k candidates,
\* no later tier runs and the chosen candidates are exactly the top_k
\* highest-scored of them, who-marker or not.
C1_TierPrecedence ==
    (PastTiers /\ Len(Tier1Kept) >= top_k)
        => /\ chosen = Take(SortDesc(Tier1Kept), top_k)
           /\ ran \cap LaterTiers = {}

NoDupIds(cs) == \A i, j \in 1..Len(cs) : i < j => cs[i].id # cs[j].id

IsPrefix(a, b) == Len(a) <= Len(b) /\ SubSeq(b, 1, Len(a)) = a

\* C2: every tier after the first only appends to the candidate list, and
\* only documents whose doc_id the list does not hold yet, so the list never
\* holds a doc_id twice.
C2_TiersOnlyAddNewIds ==
    [][ /\ pc \in {"tier2", "tier3"}
           => IsPrefix(candidates, candidates') /\ NoDupIds(candidates')
        /\ pc \in {"tier4", "tier5"}
           => IsPrefix(chosen, chosen') /\ NoDupIds(chosen') ]_vars

\* C3: the first scan keeps exactly the documents whose keyword, synonym and
\* token score is positive (doc A, whose title holds the query, with its
\* score; not doc B, which shares nothing with it).
C3_Tier1KeepsPositiveScores == pc = "tier2" => candidates = Tier1Kept

\* the ranks in chosen whose url is non-empty and not held by a higher rank
KeptRanks ==
    {i \in 1..Len(chosen) :
        /\ ~Falsy(MetaUrl(idx, chosen[i].id))
        /\ \A m \in 1..(i - 1) : MetaUrl(idx, chosen[m].id) # MetaUrl(idx, chosen[i].id)}

PlaceOf(i) == Cardinality({m \in KeptRanks : m <= i})

\* the response came from the rule-based path of lines 313-314 or 356-358
RuleBasedReturn ==
    /\ pc = "done"
    /\ response.status = 200
    /\ ~response.llm
    /\ response.error = None
    /\ Len(answer_parts) > 0

\* C4: the dedupe keeps, in rank order, exactly the first candidate of every
\* non-empty url and drops the candidates without a url; the displayed list
\* is the first at most 2 entries of the result.
C4_AggregateDedupes ==
    /\ (PastTiers /\ pc # "aggregate")
          => /\ Len(sources) = Cardinality(KeptRanks)
             /\ \A i \in KeptRanks : sources[PlaceOf(i)] = SourceOf(chosen[i], idx, q)
    /\ RuleBasedReturn
          => /\ Len(response.sources) = (IF Len(sources) < 2 THEN Len(sources) ELSE 2)
             /\ \A i \in 1..Len(response.sources) : response.sources[i] = sources[i]

\* two chosen candidates share a url and one of them was dropped
C4_Witness ==
    /\ RuleBasedReturn
    /\ \E i, j \in 1..Len(chosen) :
          /\ i < j
          /\ chosen[i].id # chosen[j].id
          /\ ~Falsy(MetaUrl(idx, chosen[i].id))
          /\ MetaUrl(idx, chosen[i].id) = MetaUrl(idx, chosen[j].id)
    /\ \E i \in 1..Len(chosen) : Falsy(MetaUrl(idx, chosen[i].id))
    /\ Len(sources) = 1

\* C5: whatever path returns, no entry of the response's sources lacks a url
\* and no two entries share one.
C5_ResponseSourcesDistinct ==
    (pc = "done" /\ response.status = 200)
        => /\ \A i \in 1..Len(response.sources) : ~Falsy(response.sources[i].url)
           /\ \A i, j \in 1..Len(response.sources) :
                 i < j => response.sources[i].url # response.sources[j].url

\* C6: an empty or whitespace-only question is answered with the 400 and
\* nothing was read for it: not index.json, no parsed document, not the
\* lexical index.
C6_EmptyQuestionRejected ==
    (Len(Strip(question)) = 0 /\ pc # "start")
        => /\ pc = "done"
           /\ response = InvalidRequest
           /\ touched = {}
           /\ gIndex = NoIndex
           /\ genCalls = 0

\* a whitespace-only question was rejected
C6_Witness ==
    /\ pc = "done"
    /\ question = <<Space, Newline>>
    /\ response.status = 400

\* what the lexical index holds for the question, if it could be obtained
IndexReturnsNothing ==
    gIndex = NoIndex \/ Len(score(gIndex, q, Cardinality(Pids))) = 0

\* C7: when no scan matched a document and the index returns nothing, the
\* answer is the fixed sentinel with no sources and llm = false, and the
\* generation endpoint was not called, key or no key.
C7_NoMatchSentinel ==
    (pc = "done" /\ Len(q) > 0 /\ Len(candidates) = 0 /\ IndexReturnsNothing)
        => /\ response = NotFoundResponse
           /\ genCalls = 0

\* with a key set and an index over a non-empty corpus, nothing matched
C7_Witness ==
    /\ pc = "done"
    /\ openaiKey
    /\ gIndex # NoIndex
    /\ gIndex.N > 1
    /\ Len(idx.keys) > 1
    /\ Len(q) > 0
    /\ Len(candidates) = 0
    /\ IndexReturnsNothing
    /\ response = NotFoundResponse

\* C8: when the generation call fails, the response has llm = false and its
\* answer is the non-empty rule-based concatenation of the candidates'
\* excerpts; the reason is in `error` only.
C8_FailureFallsBackToRuleAnswer ==
    (pc = "done" /\ response.status = 200 /\ response.error # None)
        => /\ ~response.llm
           /\ Len(response.answer) > 0
           /\ response.answer = StripUrls(AnswerText(answer_parts), 1)

SumOver(dict) ==
    LET keys == DOMAIN dict
        RECURSIVE S(_)
        S(ks) == IF ks = {} THEN 0
                 ELSE LET k == CHOOSE x \in ks : TRUE IN dict[k] + S(ks \ {k})
    IN S(keys)

\* C9: after every build, on a fresh, built or loaded index object, avgdl is
\* the sum of doc_len over N (0 when N = 0) and N counts the entries of
\* doc_len and of tf.
C9_AvgdlAndCounts ==
    lastOp = "build"
        => /\ ix.avgdl = (IF ix.N > 0 THEN Quotient(SumOver(ix.doc_len), ix.N)
                          ELSE ZeroFloat)
           /\ ix.N = Cardinality(DOMAIN ix.doc_len)
           /\ ix.N = Cardinality(DOMAIN ix.tf)

SameStatistics(a, b) ==
    /\ a.N = b.N
    /\ a.avgdl = b.avgdl
    /\ a.df = b.df
    /\ a.doc_len = b.doc_len

\* C10: two consecutive builds from an unchanged corpus leave identical
\* (N, avgdl, df, doc_len), on a fresh object and on the same object alike.
C10_BuildIdempotent ==
    \A i \in 1..(Len(builtLog) - 1) :
        builtLog[i].files = builtLog[i + 1].files
            => SameStatistics(builtLog[i].ix, builtLog[i + 1].ix)

\* the place of a document id in ascending order of ids
IdRank(pid) == CHOOSE i \in 1..Len(IdxOrder) : IdxOrder[i] = pid

\* C11: the list score returns is sorted by non-increasing score, and two
\* results of equal score come in ascending order of document id, whatever
\* the order in which the documents were listed at build time.
C11_ScoreOrderedWithIdTies ==
    scored # NoScore
        => \A i, j \in 1..Len(scored.hits) :
              i < j => \/ scored.hits[i].score > scored.hits[j].score
                       \/ /\ scored.hits[i].score = scored.hits[j].score
                          /\ IdRank(scored.hits[i].id) < IdRank(scored.hits[j].id)

\* the accumulated score of one document of an index for a token list
ScoreOf(index, q_toks, pid) ==
    SumSeq([i \in 1..Len(q_toks) |->
              TermScore(index, index.tf[pid], Get(index.doc_len, pid, 0), q_toks[i])])

HoldsQueryTerm(index, q_toks, pid) ==
    \E i \in 1..Len(q_toks) : Get(index.tf[pid], q_toks[i], 0) > 0

HitIds(hits) == {hits[i].id : i \in 1..Len(hits)}

\* C12: score returns at most top_k pairs, each with a positive score and of
\* a document holding a query term, and no document left out scores higher
\* than a returned one; with room left, every positive document is returned.
C12_ScoreCappedPositiveTop ==
    scored # NoScore
        => LET toks == tokenize(scored.query)
               hits == scored.hits
               left == DOMAIN scored.ix.tf \ HitIds(hits)
           IN /\ Len(hits) <= scored.top_k
              /\ \A i \in 1..Len(hits) :
                    /\ hits[i].score > 0
                    /\ hits[i].id \in DOMAIN scored.ix.tf
                    /\ hits[i].score = ScoreOf(scored.ix, toks, hits[i].id)
                    /\ HoldsQueryTerm(scored.ix, toks, hits[i].id)
              /\ \A i, j \in 1..Len(hits) : i < j => hits[i].id # hits[j].id
              /\ (Len(toks) > 0 /\ scored.ix.N > 0)
                    => \A pid \in left :
                          /\ \A i \in 1..Len(hits) :
                                ScoreOf(scored.ix, toks, pid) <= hits[i].score
                          /\ Len(hits) < scored.top_k
                                => ScoreOf(scored.ix, toks, pid) <= 0

\* the cap cut a positive document off, and another document does not hold
\* a term of the query
C12_Witness ==
    /\ scored # NoScore
    /\ scored.top_k = 1
    /\ Len(scored.hits) = 1
    /\ \E pid \in DOMAIN scored.ix.tf \ HitIds(scored.hits) :
          ScoreOf(scored.ix, tokenize(scored.query), pid) > 0
    /\ \E pid \in DOMAIN scored.ix.tf :
          ~HoldsQueryTerm(scored.ix, tokenize(scored.query), pid)

\* C13: score on an index object on which neither build nor load has run
\* fails with the Index-Not-Ready condition instead of returning a result.
C13_ScoreBeforeBuildFails ==
    (scored # NoScore /\ scored.after = "new") => scored.kind = "not_ready"

\* C14: under every interleaving of a thread that builds and saves with the
\* threads that load, no load reads a snapshot file that is not completely
\* written.
C14_NoPartialSnapshotRead == \A t \in Threads : callers.pc[t] # "raised"

\* C15: however the calls of get_index interleave, at most one of them
\* builds or loads an index, and all of them return the same object.
C15_BuiltOnceSameObject ==
    /\ Cardinality({t \in Threads : callers.made[t]}) <= 1
    /\ \A t, u \in Threads :
          (callers.pc[t] = "done" /\ callers.pc[u] = "done")
              => callers.ret[t] = callers.ret[u]

\* a raw link: http:// or https:// somewhere in the text
HasRawUrl(text) ==
    \E i \in 1..Len(text) :
        \/ MatchAt(text, <<"h", "t", "t", "p", ":", "/", "/">>, i)
        \/ MatchAt(text, <<"h", "t", "t", "p", "s", ":", "/", "/">>, i)

\* C16: without a generation capability the answer holds no raw URL (every
\* http:// or https:// link of a title or an excerpt is removed from the
\* text) and the response has llm = false.
C16_RuleAnswerHasNoRawUrl ==
    (pc = "done" /\ response.status = 200 /\ ~openaiKey)
        => /\ ~HasRawUrl(response.answer)
           /\ ~response.llm

\* the urls of the sources put into the context of the generation request
ContextUrls == {ctxs[i].src.url : i \in 1..Len(ctxs)}

\* C17: in a response with llm = true every source is one of the sources
\* supplied in the context, whatever the generator put in its `sources`.
C17_GeneratedSourcesFromContext ==
    (pc = "done" /\ response.status = 200 /\ response.llm)
        => \A i \in 1..Len(response.sources) :
              response.sources[i].url \in ContextUrls

\* the merged list of the scans, sorted and cut
ScanChosen == Take(SortDesc(candidates), top_k)

\* the hits the index gives when asked for the shortfall
ShortfallHits ==
    IF gIndex = NoIndex THEN << >>
    ELSE score(gIndex, q, top_k - Len(ScanChosen))

\* C18: the list the response is built from has at most top_k entries: the
\* merged list of the scans sorted by score and cut to top_k, then, only when
\* it is shorter than top_k, hits of the index asked for the shortfall, each
\* with its index score.
C18_CandidatesCapped ==
    (pc \notin {"start", "tier1", "tier2", "tier3", "cut"} /\ response # InvalidRequest)
        => LET scan == ScanChosen
               hits == ShortfallHits
           IN  /\ Len(chosen) <= top_k
               /\ IsPrefix(scan, chosen)
               /\ \A i, j \in 1..Len(scan) :
                     i < j => chosen[i].score >= chosen[j].score
               /\ pc # "tier4"
                     => /\ "tier4" \in ran <=> Len(scan) < top_k
                        /\ \A i \in (Len(scan) + 1)..Len(chosen) :
                              \E h \in 1..Len(hits) :
                                 /\ hits[h].id = chosen[i].id
                                 /\ hits[h].score = chosen[i].score

\* the scans found fewer than top_k documents and the index supplied another
C18_Witness ==
    /\ pc = "done"
    /\ "tier4" \in ran
    /\ 0 < Len(ScanChosen)
    /\ Len(ScanChosen) < Len(chosen)
    /\ Len(chosen) <= top_k

\* among the first k hits the index has for the question now, one whose
\* parsed file can be read now
ReadableHit(k) ==
    \E hits \in {bm25_search(gIndex, bmFile, dirOrder, parsed, q, k).hits} :
        \E i \in 1..Len(hits) : Readable(ReadParsed(parsed, hits[i].id))

\* C19: with the candidate list still empty after Tier 4, the index-only
\* fallback makes a candidate of a readable hit among the top top_k, and the
\* last resort answers with the readable top hit instead of the sentinel.
C19_IndexFallbacksProduce ==
    [][ /\ (pc = "tier5" /\ Len(chosen) = 0 /\ ReadableHit(top_k))
            => (pc' = "tier5" \/ Len(chosen') > 0)
        /\ (pc = "last_resort" /\ ReadableHit(1))
            => (pc' = "last_resort" \/ response' # NotFoundResponse) ]_vars

\* the documents of the context payload and of the candidate list, in order
ContextIds == [i \in 1..Len(ctxs) |-> ctxs[i].src.id]

CandidateIds == [i \in 1..Len(chosen) |-> chosen[i].id]

\* C20: when the prompt is about to be sent, the context payload lists the
\* candidates of the tiered retrieval, the same documents in the same order,
\* and nothing else.
C20_ContextListsTheCandidates ==
    pc = "generate" => ContextIds = CandidateIds

\* the corpus with the files that fail to open or parse taken away
WithoutFailing(files) ==
    [p \in DOMAIN files |-> IF Readable(files[p]) THEN files[p] ELSE Missing]

\* C21: a build on a fresh index leaves what a build of the same corpus
\* without its failing files leaves: a document that is missing, is not valid
\* JSON or is not an object is skipped, and the others are indexed as if it
\* were absent.
C21_FailingDocumentIsolated ==
    \A i \in 1..Len(builtLog) :
        builtLog[i].fresh
            => builtLog[i].ix =
                  build(NewIndex,
                        Listing(dirOrder, WithoutFailing(builtLog[i].files)),
                        WithoutFailing(builtLog[i].files))

\* C22: an index that was saved and then loaded into a fresh BM25Index has
\* the N, avgdl, doc_len, tf, df and titles of the saved one, and score
\* returns the same list on both for every query and every top_k.
C22_SaveLoadRoundTrip ==
    saved # NoSave
        => /\ saved.back.N = saved.ix.N
           /\ saved.back.avgdl = saved.ix.avgdl
           /\ saved.back.doc_len = saved.ix.doc_len
           /\ saved.back.tf = saved.ix.tf
           /\ saved.back.df = saved.ix.df
           /\ saved.back.docs = saved.ix.docs
           /\ \A query \in ScoreQueries : \A k \in 0..MaxTopK :
                 score(saved.back, query, k) = score(saved.ix, query, k)

\* a built index with at least two hits for "휴학" went through the file
C22_Witness ==
    /\ saved # NoSave
    /\ saved.ix.N > 1
    /\ Len(score(saved.back, <<"hyu", "hak">>, MaxTopK)) > 1

\* the sentences of the text of the call, the query tokens longer than 2,
\* and the number of those tokens that a sentence holds
PickSents == SplitSentences(picked.text, 1, << >>)

PickTokens == LongTokens(FindAllWords(picked.q))

MatchCount(sent) ==
    Cardinality({i \in 1..Len(PickTokens) : Contains(PickTokens[i], Lower(sent))})

\* C23: extract_relevant_sentences returns at most max_sentences sentences
\* of the text, each holding a query token longer than 2 characters, by
\* matched-token count descending and in text order among equal counts; no
\* sentence left out has a higher count than one returned; the result is
\* empty when the query has no such token or no sentence matches.
C23_RelevantSentencesRanked ==
    picked # NoPick
        => /\ Len(picked.out) <= picked.max_sentences
           /\ \E pos \in [1..Len(picked.out) -> 1..Len(PickSents)] :
                 /\ \A i \in 1..Len(picked.out) :
                       /\ picked.out[i] = PickSents[pos[i]]
                       /\ MatchCount(picked.out[i]) > 0
                 /\ \A i, j \in 1..Len(picked.out) :
                       i < j => \/ MatchCount(picked.out[i]) > MatchCount(picked.out[j])
                                \/ /\ MatchCount(picked.out[i]) = MatchCount(picked.out[j])
                                   /\ pos[i] < pos[j]
                 /\ \A n \in 1..Len(PickSents) :
                       (\A i \in 1..Len(picked.out) : pos[i] # n)
                           => \A i \in 1..Len(picked.out) :
                                 MatchCount(PickSents[n]) <= MatchCount(picked.out[i])
           /\ (Len(PickTokens) = 0
                    \/ \A n \in 1..Len(PickSents) : MatchCount(PickSents[n]) = 0)
                 => picked.out = << >>

\* three sentences returned, the first two with equal counts, the third the
\* first sentence of the text, and a matching sentence left out
C23_Witness ==
    /\ picked # NoPick
    /\ picked.max_sentences = 3
    /\ Len(picked.out) = 3
    /\ MatchCount(picked.out[1]) = MatchCount(picked.out[2])
    /\ MatchCount(picked.out[2]) > MatchCount(picked.out[3])
    /\ picked.out[3] = PickSents[1]
    /\ \E n \in 1..Len(PickSents) :
          /\ MatchCount(PickSents[n]) > 0
          /\ \A i \in 1..3 : picked.out[i] # PickSents[n]

\* C24: every excerpt that chat puts in a result source is at most the
\* short budget of 400 characters long, whether it is the joined relevant
\* sentences or the first characters of the text.
C24_ExcerptWithinBudget ==
    \A i \in 1..Len(sources) : Len(sources[i].excerpt) <= SnippetLen

====
